---- MODULE Spec2Model ----
(***************************************************************************)
(* Static-priority server (ns/scheduler/sp.py, class SPServer) on top of   *)
(* the simpy discrete-event kernel.                                        *)
(*                                                                         *)
(* One element is an SPServer object: its fields are functions over the    *)
(* element names below.  The generator SPServer.run is a process whose     *)
(* position is pc; a process runs atomically from one yield to the next,   *)
(* and put() runs atomically inside its caller.  simpy's Store.get()       *)
(* removes the head item at the call when one is there, but the process    *)
(* that yields the get event is resumed only when the kernel processes     *)
(* that event, so other processes of the same instant may run in between.  *)
(***************************************************************************)
EXTENDS Integers, Sequences, FiniteSets, TLC

\* ------------------------------------------------------------------ bounds
\* number of put calls made by the traffic sources in one run
MaxPkts == 3
\* clock ticks per simulated time unit (0.1 time units = 1 tick at 10)
TicksPerUnit == 10

\* ------------------------------------------------------------ the elements
\* S: a standalone element.  T: a second standalone element fed the same
\* arrivals as S.  U -> D: a chain, U with zero_downstream_buffer=True,
\* D with zero_buffer=True.
Elems == {"S", "T", "U", "D"}

Flows == {0, 1}
Sizes == {100, 1000}
Rates == {100}
\* the instants, besides 0 and the timeouts, at which the kernel may stop the
\* clock for a source (in ticks)
Instants == {1}

NoPrio == 0 - 1
NoPacket == [id |-> 0, flow_id |-> 0, size |-> 0, prio |-> NoPrio]
Packet(i, f, sz) == [id |-> i, flow_id |-> f, size |-> sz, prio |-> NoPrio]

\* ---------------------------------------------------- priorities (self.prio)
\* A list [p0, p1, ..] is indexed by flow id; a dictionary is a sequence of
\* (flow_id, priority) pairs in insertion order.
ListCfg(l) == [form |-> "list", items |-> [i \in 1..Len(l) |-> <<i - 1, l[i]>>]]
DictCfg(d) == [form |-> "dict", items |-> d]

\* [1, 100] is the list of examples/sp.py; {0:1, 1:10} and {0:10, 1:1} are
\* the dictionaries of its commented lines; [0, 0] gives both flows one
\* priority; {0: 1} leaves flow 1 without a priority
ListForms == { <<1, 100>>, <<1, 0>>, <<0, 0>> }
DictForms == { << <<0, 1>>, <<1, 10>> >>, << <<0, 10>>, <<1, 1>> >>,
               << <<0, 1>> >> }
Priorities == {ListCfg(l) : l \in ListForms} \cup {DictCfg(d) : d \in DictForms}

\* the dictionary {f: L[f]} of a list L
AsDict(cfg) == DictCfg(cfg.items)

\* self.prio[flow_id] does not raise (line 179)
HasFlow(cfg, f) ==
    IF cfg.form = "list" THEN f < Len(cfg.items)
    ELSE \E i \in 1..Len(cfg.items) : cfg.items[i][1] = f

\* self.prio[flow_id] (line 179)
PrioOf(cfg, f) ==
    IF cfg.form = "list" THEN cfg.items[f + 1][2]
    ELSE cfg.items[CHOOSE i \in 1..Len(cfg.items) : cfg.items[i][1] = f][2]

\* the values of s in the order of their first occurrence (the keys of a
\* dictionary built from s)
Dedup(s) ==
    LET first == {i \in 1..Len(s) : \A j \in 1..(i - 1) : s[j] # s[i]}
    IN [k \in 1..Cardinality(first) |->
           s[CHOOSE i \in first : Cardinality({j \in first : j <= i}) = k]]

\* the order in which run() iterates prio_queue_count (lines 136-141):
\* enumerate() of the list, or the dictionary's insertion order
ScanOrder(cfg) ==
    IF cfg.form = "list" THEN [i \in 1..Len(cfg.items) |-> i - 1]
    ELSE Dedup([i \in 1..Len(cfg.items) |-> cfg.items[i][2]])

Range(s) == {s[i] : i \in 1..Len(s)}

\* prio_queue_count after __init__ (lines 47-50)
InitCount(cfg) == [k \in Range(ScanOrder(cfg)) |-> 0]

RECURSIVE SumOver(_, _)
SumOver(f, S) ==
    IF S = {} THEN 0
    ELSE LET x == CHOOSE y \in S : TRUE IN f[x] + SumOver(f, S \ {x})

\* total_packets() (lines 127-131)
TotalOf(count) == SumOver(count, DOMAIN count)

\* a timeout that forgets the factor 8 (bytes instead of bits)
DurationInBytes(size, r) == (size * TicksPerUnit) \div r

\* serialization delay packet.size * 8.0 / self.rate, in ticks (lines 149, 162)
Duration(size, r) == (size * 8 * TicksPerUnit) \div r

\* ------------------------------------------------------------------- state
VARIABLES
    \* constructor arguments and wiring (fixed after Init)
    prio,                    \* self.prio
    rate,                    \* self.rate
    zero_buffer,             \* self.zero_buffer
    zero_downstream_buffer,  \* self.zero_downstream_buffer
    out,                     \* self.out: an element, or "sink" for a PacketSink
    \* SPServer fields
    prio_queue_count,        \* key -> count
    key_order,               \* the keys of prio_queue_count in iteration order
    stores,                  \* priority -> FIFO, created on first use
    downstream_stores,       \* priority -> mirror FIFO
    packets_available,       \* number of items in the simpy.Store
    current_packet,
    byte_sizes,              \* flow_id -> bytes (a defaultdict: keys appear on use)
    packets_received,
    upstream_updates,        \* packet id -> element whose update was passed
    upstream_stores,         \* packet id -> [el, prio], the store that was passed
    \* the process SPServer.run
    pc,                      \* where the generator is suspended
    run_prio,                \* its local prio
    run_packet,              \* its local packet
    wake,                    \* the time its pending timeout fires
    \* the kernel and the environment
    now,                     \* env.now, in ticks
    sent,                    \* packets generated so far
    sink,                    \* what each element handed to a PacketSink, with the time
    admitted,                \* put calls that returned, in order, with the time
    rejected,                \* put calls that raised, in order, with the time
    selected                 \* packets removed from a FIFO by run(), in order

cfgvars == <<prio, rate, zero_buffer, zero_downstream_buffer, out, key_order>>
vars == <<prio, rate, zero_buffer, zero_downstream_buffer, out, key_order,
          prio_queue_count, stores, downstream_stores, packets_available,
          current_packet, byte_sizes, packets_received, upstream_updates,
          upstream_stores, pc, run_prio, run_packet, wake, now, sent, sink,
          admitted, rejected, selected>>

\* The mutable fields as one value, so that a method is an operator from
\* world to world; raised says that the call ended in an exception.
World ==
    [prio_queue_count |-> prio_queue_count, stores |-> stores,
     downstream_stores |-> downstream_stores,
     packets_available |-> packets_available,
     current_packet |-> current_packet, byte_sizes |-> byte_sizes,
     packets_received |-> packets_received,
     upstream_updates |-> upstream_updates, upstream_stores |-> upstream_stores,
     pc |-> pc, run_prio |-> run_prio, run_packet |-> run_packet, wake |-> wake,
     sink |-> sink, admitted |-> admitted, rejected |-> rejected,
     selected |-> selected, raised |-> FALSE]

Commit(w) ==
    /\ prio_queue_count' = w.prio_queue_count
    /\ stores' = w.stores
    /\ downstream_stores' = w.downstream_stores
    /\ packets_available' = w.packets_available
    /\ current_packet' = w.current_packet
    /\ byte_sizes' = w.byte_sizes
    /\ packets_received' = w.packets_received
    /\ upstream_updates' = w.upstream_updates
    /\ upstream_stores' = w.upstream_stores
    /\ pc' = w.pc
    /\ run_prio' = w.run_prio
    /\ run_packet' = w.run_packet
    /\ wake' = w.wake
    /\ sink' = w.sink
    /\ admitted' = w.admitted
    /\ rejected' = w.rejected
    /\ selected' = w.selected

Raise(w) == [w EXCEPT !.raised = TRUE]

Without(f, k) == [x \in DOMAIN f \ {k} |-> f[x]]
Get(f, k, default) == IF k \in DOMAIN f THEN f[k] ELSE default

NoStore == [el |-> "none", prio |-> NoPrio]

\* ------------------------------------------------------------ SPServer.put
\* self.prio_queue_count[prio] += 1 does not raise (line 182): a list is
\* indexed by the priority value, a dictionary has every priority as a key
HasCount(count, p) == p \in DOMAIN count

\* a FIFO that is filled at its head
EnqueueFront(w, e, packet, p, upstream_update, upstream_store) ==
    LET w1 == IF p \in DOMAIN w.stores[e] THEN w
              ELSE [w EXCEPT !.stores[e] = (p :> << >>) @@ @]
    IN [w1 EXCEPT !.stores[e][p] = <<packet>> \o @]

\* lines 189-202: create the FIFOs, record the bridge, enqueue
Enqueue(w, e, packet, p, upstream_update, upstream_store) ==
    LET w1 == IF p \in DOMAIN w.stores[e] THEN w
              ELSE [w EXCEPT
                     !.stores[e] = (p :> << >>) @@ @,
                     !.downstream_stores[e] =
                         IF zero_downstream_buffer[e] THEN (p :> << >>) @@ @ ELSE @]
        w2 == IF zero_buffer[e] /\ upstream_update # "none" /\ upstream_store # NoStore
              THEN [w1 EXCEPT
                     !.upstream_stores[e] = (packet.id :> upstream_store) @@ @,
                     !.upstream_updates[e] = (packet.id :> upstream_update) @@ @]
              ELSE w1
        w3 == IF zero_downstream_buffer[e]
              THEN [w2 EXCEPT !.downstream_stores[e][p] = Append(@, packet)]
              ELSE w2
    IN [w3 EXCEPT !.stores[e][p] = Append(@, packet)]

\* a put that never signals the service loop
NotifyNever(w, e) == w

\* lines 176-177: signal the service loop when nothing is counted
Notify(w, e) ==
    IF TotalOf(w.prio_queue_count[e]) = 0
    THEN [w EXCEPT !.packets_available[e] = @ + 1]
    ELSE w

\* put(packet, upstream_update, upstream_store), lines 171-202
Put(w, e, packet, upstream_update, upstream_store) ==
    LET f == packet.flow_id
        w1 == [w EXCEPT
                !.packets_received[e] = @ + 1,
                !.byte_sizes[e] = (f :> (Get(@, f, 0) + packet.size)) @@ @]
        w2 == Notify(w1, e)
        fail == [w2 EXCEPT !.rejected[e] = Append(@, [pkt |-> packet, t |-> now]),
                           !.raised = TRUE]
    IN IF ~HasFlow(prio[e], f) THEN fail
       ELSE LET p == PrioOf(prio[e], f) IN
            IF ~HasCount(w2.prio_queue_count[e], p) THEN fail
            ELSE LET w3 == [w2 EXCEPT !.prio_queue_count[e][p] = @ + 1]
                     w4 == Enqueue(w3, e, packet, p, upstream_update, upstream_store)
                 IN [w4 EXCEPT !.admitted[e] = Append(@, [pkt |-> packet, t |-> now])]

\* --------------------------------------------------------- SPServer.update
\* update(packet), lines 73-92.  With zero_buffer the packet is first pulled
\* from the recorded upstream store and the recorded upstream update runs.
RECURSIVE Update(_, _, _)
Update(w, e, packet) ==
    LET id == packet.id
        w1 == IF ~zero_buffer[e] THEN w
              ELSE IF id \notin DOMAIN w.upstream_stores[e] THEN Raise(w)
              ELSE LET ref == w.upstream_stores[e][id]
                       a == [w EXCEPT
                              !.stores[ref.el][ref.prio] =
                                  IF @ = << >> THEN @ ELSE Tail(@),
                              !.upstream_stores[e] = Without(@, id)]
                       b == Update(a, w.upstream_updates[e][id], packet)
                   IN IF b.raised THEN b
                      ELSE [b EXCEPT !.upstream_updates[e] = Without(@, id)]
    IN IF w1.raised THEN w1
       ELSE IF ~HasCount(w1.prio_queue_count[e], packet.prio) THEN Raise(w1)
       ELSE LET w2 == [w1 EXCEPT !.prio_queue_count[e][packet.prio] = @ - 1]
            IN IF packet.flow_id \in DOMAIN w2.byte_sizes[e]
               THEN [w2 EXCEPT !.byte_sizes[e][packet.flow_id] = @ - packet.size]
               ELSE Raise(w2)

\* ------------------------------------------------------------ SPServer.run
\* the FIFOs of e that hold a packet, and the flows queued in them
QueuedPrios(w, e) == {p \in DOMAIN w.stores[e] : w.stores[e][p] # << >>}
QueuedFlows(w, e) ==
    UNION {{w.stores[e][p][i].flow_id : i \in 1..Len(w.stores[e][p])} :
              p \in DOMAIN w.stores[e]}

\* a scan that keeps the last key whose count is positive
LastReady(order, count) ==
    IF \E i \in 1..Len(order) : count[order[i]] > 0
    THEN CHOOSE i \in 1..Len(order) :
            /\ count[order[i]] > 0
            /\ \A j \in (i + 1)..Len(order) : count[order[j]] <= 0
    ELSE 0

\* the for loop of lines 141-142: the first key, in iteration order, whose
\* count is positive; 0 when there is none
FirstReady(order, count) ==
    IF \E i \in 1..Len(order) : count[order[i]] > 0
    THEN CHOOSE i \in 1..Len(order) :
            /\ count[order[i]] > 0
            /\ \A j \in 1..(i - 1) : count[order[j]] <= 0
    ELSE 0

\* yield self.packets_available.get() (line 169): an item that is there is
\* taken at the call and the process is resumed by the kernel later
WaitAvailable(w, e) ==
    IF w.packets_available[e] > 0
    THEN [w EXCEPT !.packets_available[e] = @ - 1, !.pc[e] = "woken"]
    ELSE [w EXCEPT !.pc[e] = "idle"]

\* a get that reads the head without removing it
TakePeek(w, e, p) ==
    IF w.stores[e][p] = << >> THEN [w EXCEPT !.run_prio[e] = p, !.pc[e] = "waitget"]
    ELSE [w EXCEPT
           !.run_prio[e] = p,
           !.pc[e] = "got",
           !.run_packet[e] = Head(w.stores[e][p]),
           !.selected[e] = Append(@, [pkt |-> Head(w.stores[e][p]), prio |-> p,
                                      t |-> now,
                                      prios |-> {q \in DOMAIN w.stores[e] :
                                                    w.stores[e][q] # << >>},
                                      flows |-> {}])]

\* store.get() on the FIFO the loop chose (lines 145, 157): the head is
\* removed at the call when there is one; the element notes what was queued
Take(w, e, p) ==
    LET fifo == IF zero_downstream_buffer[e] THEN w.downstream_stores[e][p]
                ELSE w.stores[e][p]
        rest == [w EXCEPT !.run_prio[e] = p]
    IN IF fifo = << >> THEN [rest EXCEPT !.pc[e] = "waitget"]
       ELSE LET taken == IF zero_downstream_buffer[e]
                         THEN [rest EXCEPT !.downstream_stores[e][p] = Tail(@)]
                         ELSE [rest EXCEPT !.stores[e][p] = Tail(@)]
            IN [taken EXCEPT
                 !.pc[e] = "got",
                 !.run_packet[e] = Head(fifo),
                 !.selected[e] = Append(@, [pkt |-> Head(fifo), prio |-> p,
                                            t |-> now,
                                            prios |-> QueuedPrios(w, e),
                                            flows |-> QueuedFlows(w, e)])]

\* line 168 and what follows it: wait for work when nothing is counted,
\* otherwise go round the while loop again
RECURSIVE Scan(_, _)
AfterFor(w, e, chosen) ==
    IF TotalOf(w.prio_queue_count[e]) = 0 THEN WaitAvailable(w, e)
    ELSE IF chosen THEN Scan(w, e)
    ELSE [w EXCEPT !.pc[e] = "spin"]   \* while True without a yield

\* one pass of the while loop from line 135 up to its first yield
Scan(w, e) ==
    LET i == FirstReady(key_order[e], w.prio_queue_count[e])
    IN IF i = 0 THEN AfterFor(w, e, FALSE)
       ELSE Take(w, e, key_order[e][i])

Constructed(e) == pc[e] # "none"

\* packet.prio = prio (lines 146, 158)
Tag(packet, p) == [packet EXCEPT !.prio = p]

\* the process starts, or is resumed after packets_available.get()
Resume(e) ==
    /\ pc[e] \in {"start", "woken"}
    /\ \E w \in {Scan(World, e)} : Commit(w)
    /\ UNCHANGED <<cfgvars, now, sent>>

\* the kernel hands an item of packets_available to the waiting process
Wake(e) ==
    /\ pc[e] = "idle"
    /\ packets_available[e] > 0
    /\ \E w \in {WaitAvailable(World, e)} : Commit(w)
    /\ UNCHANGED <<cfgvars, now, sent>>

\* the kernel hands a newly queued packet to the process waiting in get()
StoreGet(e) ==
    /\ pc[e] = "waitget"
    /\ \E w \in {Take(World, e, run_prio[e])} : w.pc[e] = "got" /\ Commit(w)
    /\ UNCHANGED <<cfgvars, now, sent>>

\* lines 158-162: tag, update, start the transmission
Serve(e) ==
    /\ pc[e] = "got"
    /\ ~zero_downstream_buffer[e]
    /\ \E packet \in {Tag(run_packet[e], run_prio[e])} :
       \E w1 \in {Update([World EXCEPT !.run_packet[e] = packet], e, packet)} :
       \E w2 \in {IF w1.raised THEN [w1 EXCEPT !.pc[e] = "crashed"]
                   ELSE [w1 EXCEPT
                          !.current_packet[e] = packet,
                          !.wake[e] = now + Duration(packet.size, rate[e]),
                          !.pc[e] = "tx"]} :
          Commit(w2)
    /\ UNCHANGED <<cfgvars, now, sent>>

\* lines 146-149: tag, start the transmission; update is left to downstream
ServeMirror(e) ==
    /\ pc[e] = "got"
    /\ zero_downstream_buffer[e]
    /\ \E packet \in {Tag(run_packet[e], run_prio[e])} :
       \E w \in {[World EXCEPT
                    !.run_packet[e] = packet,
                    !.current_packet[e] = packet,
                    !.wake[e] = now + Duration(packet.size, rate[e]),
                    !.pc[e] = "tx"]} :
          Commit(w)
    /\ UNCHANGED <<cfgvars, now, sent>>

\* self.out.put(...): a PacketSink records the packet, an element admits it
Deliver(w, e, packet, upstream_update, upstream_store) ==
    IF out[e] = "sink"
    THEN [w EXCEPT !.sink[e] = Append(@, [pkt |-> packet, t |-> now])]
    ELSE Put(w, out[e], packet, upstream_update, upstream_store)

\* the rest of the loop body after the timeout, then the next pass
Finish(w, e) ==
    IF w.raised THEN [w EXCEPT !.pc[e] = "crashed"]
    ELSE AfterFor([w EXCEPT !.current_packet[e] = NoPacket], e, TRUE)

\* lines 163-169: the timeout fired; forward the packet
Transmit(e) ==
    /\ pc[e] = "tx"
    /\ ~zero_downstream_buffer[e]
    /\ now = wake[e]
    /\ \E w1 \in {Deliver(World, e, run_packet[e], "none", NoStore)} :
       \E w2 \in {Finish(w1, e)} :
          Commit(w2)
    /\ UNCHANGED <<cfgvars, now, sent>>

\* lines 151-154, 166-169: forward with this element's update and real FIFO
TransmitMirror(e) ==
    /\ pc[e] = "tx"
    /\ zero_downstream_buffer[e]
    /\ now = wake[e]
    /\ \E w1 \in {Deliver(World, e, run_packet[e], e,
                            [el |-> e, prio |-> run_prio[e]])} :
       \E w2 \in {Finish(w1, e)} :
          Commit(w2)
    /\ UNCHANGED <<cfgvars, now, sent>>

\* ---------------------------------------------------- sources and the clock
\* a traffic source generates the next packet and calls e.put(packet)
Arrive(e, f, sz) ==
    /\ sent < MaxPkts
    /\ Constructed(e)
    /\ \E w \in {Put(World, e, Packet(sent + 1, f, sz), "none", NoStore)} :
          Commit(w)
    /\ sent' = sent + 1
    /\ UNCHANGED <<cfgvars, now>>

\* the process of e has nothing to do at the current instant
Blocked(e) ==
    \/ pc[e] \in {"none", "crashed"}
    \/ pc[e] = "idle" /\ packets_available[e] = 0
    \/ pc[e] = "tx" /\ wake[e] > now
    \/ /\ pc[e] = "waitget"
       /\ IF zero_downstream_buffer[e]
          THEN downstream_stores[e][run_prio[e]] = << >>
          ELSE stores[e][run_prio[e]] = << >>

Timers == {wake[e] : e \in {x \in Elems : pc[x] = "tx"}}

\* the kernel advances env.now only when no event of the current instant is
\* left: to the next instant of a source, or to the next timeout
Tick ==
    /\ \A e \in Elems : Blocked(e)
    /\ \E t \in Instants :
          /\ t > now
          /\ \A u \in Instants \cup Timers : u > now => t <= u
          /\ now' = t
    /\ UNCHANGED <<cfgvars, prio_queue_count, stores, downstream_stores,
                   packets_available, current_packet, byte_sizes,
                   packets_received, upstream_updates, upstream_stores, pc,
                   run_prio, run_packet, wake, sent, sink, admitted, rejected,
                   selected>>

NextTimeout ==
    /\ \A e \in Elems : Blocked(e)
    /\ Timers # {}
    /\ now' = CHOOSE t \in Timers : \A u \in Timers : t <= u
    /\ UNCHANGED <<cfgvars, prio_queue_count, stores, downstream_stores,
                   packets_available, current_packet, byte_sizes,
                   packets_received, upstream_updates, upstream_stores, pc,
                   run_prio, run_packet, wake, sent, sink, admitted, rejected,
                   selected>>

\* ----------------------------------------------------------------- __init__
NoCfg == ListCfg(<< >>)

\* the fields after the constructors of the elements in C have run
\* (lines 42-71); the other elements do not exist
Construct(C, P, zb, zdb, o) ==
    /\ prio = [e \in Elems |-> IF e \in C THEN P[e] ELSE NoCfg]
    /\ zero_buffer = [e \in Elems |-> e \in zb]
    /\ zero_downstream_buffer = [e \in Elems |-> e \in zdb]
    /\ out = [e \in Elems |-> IF e \in C THEN o[e] ELSE "none"]
    /\ key_order = [e \in Elems |-> ScanOrder(prio[e])]
    /\ prio_queue_count = [e \in Elems |-> InitCount(prio[e])]
    /\ stores = [e \in Elems |-> << >>]
    /\ downstream_stores = [e \in Elems |-> << >>]
    /\ packets_available = [e \in Elems |-> 0]
    /\ current_packet = [e \in Elems |-> NoPacket]
    /\ byte_sizes = [e \in Elems |-> << >>]
    /\ packets_received = [e \in Elems |-> 0]
    /\ upstream_updates = [e \in Elems |-> << >>]
    /\ upstream_stores = [e \in Elems |-> << >>]
    /\ pc = [e \in Elems |-> IF e \in C THEN "start" ELSE "none"]
    /\ run_prio = [e \in Elems |-> NoPrio]
    /\ run_packet = [e \in Elems |-> NoPacket]
    /\ wake = [e \in Elems |-> 0]
    /\ now = 0
    /\ sent = 0
    /\ sink = [e \in Elems |-> << >>]
    /\ admitted = [e \in Elems |-> << >>]
    /\ rejected = [e \in Elems |-> << >>]
    /\ selected = [e \in Elems |-> << >>]

\* ------------------------------------------- a standalone element (S alone)
Init ==
    /\ rate \in [Elems -> Rates]
    /\ \E c \in Priorities :
          Construct({"S"}, [e \in Elems |-> c], {}, {}, [e \in Elems |-> "sink"])

Next ==
    \/ \E f \in Flows, sz \in Sizes : Arrive("S", f, sz)
    \/ Resume("S")
    \/ Wake("S")
    \/ Serve("S")
    \/ Transmit("S")
    \/ Tick
    \/ NextTimeout

Spec == Init /\ [][Next]_vars

\* put(packet) of a packet of flow f returns normally under cfg
Accepts(cfg, f) == HasFlow(cfg, f) /\ HasCount(InitCount(cfg), PrioOf(cfg, f))

\* S alone with priorities under which every flow is admitted, and the
\* guarantee of env.run(): as long as an event is scheduled, the kernel
\* processes the next one (a started process, a triggered get, a due
\* timeout), moving the clock to the next timeout when the instant is done
LiveInit == Init /\ \A f \in Flows : Accepts(prio["S"], f)

KernelStep ==
    Resume("S") \/ Wake("S") \/ Serve("S") \/ Transmit("S") \/ NextTimeout

Fairness == WF_vars(KernelStep)

LiveSpec == LiveInit /\ [][Next]_vars /\ Fairness

\* ------------------------------------------------------ accessors
\* byte_size(flow_id), lines 101-109
byte_size(e, f) == IF f \in DOMAIN byte_sizes[e] THEN byte_sizes[e][f] ELSE 0

\* total_packets(), lines 127-131
total_packets(e) == TotalOf(prio_queue_count[e])

\* ------------------------------------------------------ claims, S alone
Index(order, k) == CHOOSE i \in 1..Len(order) : order[i] = k
SinkPos(e, id) == CHOOSE i \in 1..Len(sink[e]) : sink[e][i].pkt.id = id
InSink(e, id) == \E i \in 1..Len(sink[e]) : sink[e][i].pkt.id = id

\* C1: every packet the service loop removes from a FIFO belongs to the first
\* priority, in the element's scan order, that had a packet queued at that
\* instant: no later priority is selected while an earlier one is queued.
StrictPriority ==
    \A i \in 1..Len(selected["S"]) :
        LET s == selected["S"][i]
            order == key_order["S"]
        IN /\ s.prio \in s.prios
           /\ \A q \in s.prios : Index(order, s.prio) <= Index(order, q)

\* a packet was selected while two priorities were queued, one of them after
\* an arrival during a transmission
StrictPriorityWitness ==
    \E i \in 2..Len(selected["S"]) :
        /\ Cardinality(selected["S"][i].prios) = 2
        /\ selected["S"][i].t > 0

\* C2: packets whose flows resolve to the same priority reach the sink in the
\* order of their put calls, whatever else arrives in between.
FifoWithinPriority ==
    \A j \in 1..Len(sink["S"]) : \A a \in 1..Len(admitted["S"]) :
        LET b == CHOOSE k \in 1..Len(admitted["S"]) :
                    admitted["S"][k].pkt.id = sink["S"][j].pkt.id
            pa == admitted["S"][a].pkt
        IN (a < b /\ PrioOf(prio["S"], pa.flow_id)
                        = PrioOf(prio["S"], sink["S"][j].pkt.flow_id))
           => (InSink("S", pa.id) /\ SinkPos("S", pa.id) < j)

\* two packets of one priority were forwarded after a packet of another
\* priority that arrived between them
FifoWithinPriorityWitness ==
    /\ Len(admitted["S"]) = 3 /\ Len(sink["S"]) = 3
    /\ LET P(k) == PrioOf(prio["S"], admitted["S"][k].pkt.flow_id)
       IN P(1) = P(3) /\ P(1) # P(2)

\* C3: the sink never holds a packet twice, holds only packets that put
\* admitted, unchanged in flow_id, size and id, and each carries the priority
\* its flow resolves to.
NoDuplicationTagged ==
    /\ \A i, j \in 1..Len(sink["S"]) :
          sink["S"][i].pkt.id = sink["S"][j].pkt.id => i = j
    /\ \A i \in 1..Len(sink["S"]) :
          LET o == sink["S"][i].pkt IN
          /\ \E k \in 1..Len(admitted["S"]) :
                LET a == admitted["S"][k].pkt
                IN a.id = o.id /\ a.flow_id = o.flow_id /\ a.size = o.size
          /\ HasFlow(prio["S"], o.flow_id)
          /\ o.prio = PrioOf(prio["S"], o.flow_id)

\* two packets of different flows were forwarded, tagged with a priority
\* that is not the flow id
NoDuplicationTaggedWitness ==
    /\ Len(sink["S"]) >= 2
    /\ sink["S"][1].pkt.flow_id # sink["S"][2].pkt.flow_id
    /\ sink["S"][1].pkt.prio # sink["S"][1].pkt.flow_id

\* C4: every packet that put admitted is eventually handed to the sink (again
\* and again the sink holds every admitted packet), and the service loop is never left waiting on packets_available, with no
\* signal pending, while total_packets() > 0.
NoLoss ==
    /\ []<>(\A k \in 1..Len(admitted["S"]) : InSink("S", admitted["S"][k].pkt.id))
    /\ [](pc["S"] = "idle" /\ packets_available["S"] = 0
              => total_packets("S") = 0)

\* a put found the loop waiting and its packet reached the sink; the loop
\* waits again with every admitted packet forwarded
NoLossWitness ==
    /\ pc["S"] = "idle" /\ packets_available["S"] = 0
    /\ Len(admitted["S"]) = MaxPkts
    /\ Len(sink["S"]) = MaxPkts
    /\ \E k \in 1..Len(selected["S"]) :
          selected["S"][k].t > 0 /\ selected["S"][k].flows = {selected["S"][k].pkt.flow_id}

RECURSIVE BytesOf(_, _)
BytesOf(fifo, f) ==
    IF fifo = << >> THEN 0
    ELSE (IF Head(fifo).flow_id = f THEN Head(fifo).size ELSE 0)
            + BytesOf(Tail(fifo), f)

RECURSIVE QueuedBytes(_, _, _)
QueuedBytes(e, f, P) ==
    IF P = {} THEN 0
    ELSE LET p == CHOOSE q \in P : TRUE
         IN BytesOf(stores[e][p], f) + QueuedBytes(e, f, P \ {p})

\* C5: for every flow, byte_size(flow) is the sum of the sizes of the packets
\* of that flow that put admitted and that are still in a FIFO.
ByteConservation ==
    \A f \in Flows : byte_size("S", f) = QueuedBytes("S", f, DOMAIN stores["S"])

\* C6: for every priority that has a FIFO, prio_queue_count[p] is the length
\* of stores[p] in every state in which another process may run.
LedgerAgreement ==
    \A p \in DOMAIN stores["S"] :
        prio_queue_count["S"][p] = Len(stores["S"][p])

\* C7: with a packet of flow 0 and a packet of flow 1 both queued, the
\* element built with {0:1, 1:10} selects flow 0 and the element built with
\* {0:10, 1:1} selects flow 1.
MappingDrivesPrecedence ==
    \A i \in 1..Len(selected["S"]) :
        LET s == selected["S"][i] IN
        s.flows = {0, 1} =>
            /\ prio["S"] = DictCfg(<< <<0, 1>>, <<1, 10>> >>) => s.pkt.flow_id = 0
            /\ prio["S"] = DictCfg(<< <<0, 10>>, <<1, 1>> >>) => s.pkt.flow_id = 1

\* every put call so far, accepted or not, by packet id
PutOf(e, id) ==
    LET all == admitted[e] \o rejected[e]
    IN all[CHOOSE k \in 1..Len(all) : all[k].pkt.id = id]

\* the run of examples/sp.py line 24 with the two arrivals of the scenario
ExampleScenario ==
    /\ prio["S"] = ListCfg(<<1, 100>>)
    /\ rate["S"] = 100
    /\ sent >= 2
    /\ PutOf("S", 1) = [pkt |-> Packet(1, 0, 1000), t |-> 0]
    /\ 10 * PutOf("S", 2).t = TicksPerUnit
    /\ PutOf("S", 2).pkt = Packet(2, 1, 100)

\* C8: in the example scenario both puts are accepted, flow 0's packet is
\* transmitted first and for 80 time units, and flow 1's packet is the next
\* one selected, at time 80.
ExampleTimeline ==
    ExampleScenario =>
        /\ \A k \in 1..Len(rejected["S"]) : rejected["S"][k].pkt.id > 2
        /\ Len(selected["S"]) >= 1 =>
              selected["S"][1].pkt.id = 1 /\ selected["S"][1].t = 0
        /\ Len(sink["S"]) >= 1 =>
              sink["S"][1].pkt.id = 1 /\ sink["S"][1].t = 80 * TicksPerUnit
        /\ Len(selected["S"]) >= 2 =>
              selected["S"][2].pkt.id = 2 /\ selected["S"][2].t = 80 * TicksPerUnit

\* ------------------------------------------- two elements, the same arrivals
\* nothing is scheduled any more: every process waits for a put
AtRest == (\A e \in Elems : Blocked(e)) /\ Timers = {}

\* a traffic source hands the same packet to a and to b, at an instant at
\* which every service loop has run as far as it can
ArriveBoth(a, b, f, sz) ==
    /\ sent < MaxPkts
    /\ \A e \in Elems : Blocked(e)
    /\ \E w1 \in {Put(World, a, Packet(sent + 1, f, sz), "none", NoStore)} :
       \E w2 \in {Put([w1 EXCEPT !.raised = FALSE], b, Packet(sent + 1, f, sz),
                      "none", NoStore)} :
          Commit(w2)
    /\ sent' = sent + 1
    /\ UNCHANGED <<cfgvars, now>>

\* S is built with a list L, T with the dictionary {f: L[f]}
PairInit ==
    /\ rate \in [Elems -> Rates]
    /\ \E l \in ListForms :
          Construct({"S", "T"},
                    [e \in Elems |-> IF e = "T" THEN AsDict(ListCfg(l)) ELSE ListCfg(l)],
                    {}, {}, [e \in Elems |-> "sink"])

PairNext ==
    \/ \E f \in Flows, sz \in Sizes : ArriveBoth("S", "T", f, sz)
    \/ \E e \in {"S", "T"} : Resume(e) \/ Wake(e) \/ Serve(e) \/ Transmit(e)
    \/ Tick
    \/ NextTimeout

PairSpec == PairInit /\ [][PairNext]_vars

\* the packet ids of a log, in order
Ids(log) == [i \in 1..Len(log) |-> log[i].pkt.id]

\* one of s, t continues the other
PrefixCompatible(s, t) ==
    \A i \in 1..Len(s) : i <= Len(t) => s[i] = t[i]

\* C9: the element built with the list L and the element built with the
\* dictionary {f: L[f]} accept the same put calls and, fed the same arrivals,
\* forward the same sequence of packets.
ListDictEquivalent ==
    /\ Ids(admitted["S"]) = Ids(admitted["T"])
    /\ PrefixCompatible(Ids(sink["S"]), Ids(sink["T"]))
    /\ AtRest => Ids(sink["S"]) = Ids(sink["T"])

\* --------------------------- a chain U -> D beside a standalone element S
\* the assignments under which put admits every flow
Admitting == {c \in Priorities : \A f \in Flows : Accepts(c, f)}

\* U (zero_downstream_buffer=True) forwards to D (zero_buffer=True), D to a
\* sink; S, U and D are built with the same priorities
ChainPairInit ==
    /\ rate \in [Elems -> Rates]
    /\ \E c \in Admitting :
          Construct({"S", "U", "D"}, [e \in Elems |-> c], {"D"}, {"U"},
                    [e \in Elems |-> IF e = "U" THEN "D" ELSE "sink"])

ChainPairNext ==
    \/ \E f \in Flows, sz \in Sizes : ArriveBoth("S", "U", f, sz)
    \/ \E e \in {"S", "D"} : Resume(e) \/ Wake(e) \/ Serve(e) \/ Transmit(e)
    \/ Resume("U") \/ Wake("U") \/ StoreGet("U")
    \/ ServeMirror("U") \/ TransmitMirror("U")
    \/ Tick
    \/ NextTimeout

ChainPairSpec == ChainPairInit /\ [][ChainPairNext]_vars

\* C10: the chain U -> D hands to D's output the same sequence of packet ids
\* as the standalone element S built with the same priorities and fed the
\* same arrivals.
ZeroBufferEquivalent ==
    /\ PrefixCompatible(Ids(sink["S"]), Ids(sink["D"]))
    /\ AtRest => Ids(sink["S"]) = Ids(sink["D"])

\* ------------------------------------------------ more accessors (monitors)
\* size(flow_id), lines 111-119: the FIFO is looked up under the key flow_id
size(e, f) == IF f \in DOMAIN stores[e] THEN Len(stores[e][f]) ELSE 0

\* all_flows(), lines 121-125
all_flows(e) == DOMAIN byte_sizes[e]

\* packet_in_service(), lines 94-99
packet_in_service(e) == current_packet[e]

\* ------------------------------------------------ further claims, S alone
\* the positions (priority, index) of the FIFOs of e that hold a packet of flow f
QueuedOf(e, f) ==
    {<<p, i>> \in (DOMAIN stores[e]) \X (1..MaxPkts) :
        i <= Len(stores[e][p]) /\ stores[e][p][i].flow_id = f}

InFifo(e, id) ==
    \E p \in DOMAIN stores[e] : \E i \in 1..Len(stores[e][p]) : stores[e][p][i].id = id

\* C12: a put fails exactly when the packet's flow has no entry in the
\* configured priorities, and a packet whose put failed is in no FIFO.
UnresolvableIsError ==
    /\ \A k \in 1..Len(rejected["S"]) :
          /\ ~HasFlow(prio["S"], rejected["S"][k].pkt.flow_id)
          /\ ~InFifo("S", rejected["S"][k].pkt.id)
    /\ \A k \in 1..Len(admitted["S"]) :
          HasFlow(prio["S"], admitted["S"][k].pkt.flow_id)

\* C13: size(flow_id) is the number of queued packets of that flow.
SizeReportsFlow ==
    \A f \in Flows : size("S", f) = Cardinality(QueuedOf("S", f))

\* C14: packets_available never holds more than one signal, and the loop is
\* never woken while no packet is queued.
SingleSignal ==
    /\ packets_available["S"] <= 1
    /\ pc["S"] = "woken" => QueuedPrios(World, "S") # {}

FailedPutNoEffect ==
    admitted["S"] = << >> =>
        /\ all_flows("S") = {}
        /\ \A f \in Flows : byte_size("S", f) = 0
        /\ prio_queue_count["S"] = InitCount(prio["S"])
        /\ stores["S"] = << >>
        /\ packets_available["S"] = 0

\* ------------------------------------------------------- a chain U -> D
\* pairs (priorities of U, priorities of D): the same assignment in both, or
\* assignments that give a flow different priority values in U and in D
ChainPrios ==
    {<<c, c>> : c \in Admitting}
    \cup {<<DictCfg(<< <<0, 1>>, <<1, 10>> >>), DictCfg(<< <<0, 10>>, <<1, 1>> >>)>>,
          <<ListCfg(<<0, 0>>), DictCfg(<< <<0, 1>>, <<1, 0>> >>)>>}

\* U (zero_downstream_buffer=True) forwards to D (zero_buffer=True), D to a sink
ChainInit ==
    /\ rate \in [Elems -> Rates]
    /\ \E c \in ChainPrios :
          Construct({"U", "D"}, [e \in Elems |-> IF e = "U" THEN c[1] ELSE c[2]],
                    {"D"}, {"U"},
                    [e \in Elems |-> IF e = "U" THEN "D" ELSE "sink"])

ChainNext ==
    \/ \E f \in Flows, sz \in Sizes : Arrive("U", f, sz)
    \/ \E e \in {"U", "D"} : Resume(e) \/ Wake(e)
    \/ StoreGet("U") \/ ServeMirror("U") \/ TransmitMirror("U")
    \/ Serve("D") \/ Transmit("D")
    \/ Tick
    \/ NextTimeout

ChainSpec == ChainInit /\ [][ChainNext]_vars

\* packets admitted to U that D has not yet handed to its output
InFlight == Len(admitted["U"]) - Len(sink["D"])

\* C11: a packet admitted to U and not yet forwarded by D is counted in the
\* ledger of one element only, never in U's and in D's at the same time.
NoDoubleCounting ==
    total_packets("U") + total_packets("D") <= InFlight

\* C17: when D drains a packet, U.update decrements U.prio_queue_count at the
\* priority under which U admitted it: U's counts are the lengths of U's
\* real FIFOs, never negative, and the update never fails.
UpstreamLedgerAtOwnPriority ==
    /\ pc["D"] # "crashed"
    /\ \A p \in DOMAIN prio_queue_count["U"] :
          /\ prio_queue_count["U"][p] >= 0
          /\ prio_queue_count["U"][p]
                = (IF p \in DOMAIN stores["U"] THEN Len(stores["U"][p]) ELSE 0)

\* C18: the packet that D's update removes from U's real FIFO is the packet D
\* has selected: a packet D has drained is no longer in a FIFO of U.
BridgePullsDrainedPacket ==
    \A k \in 1..Len(selected["D"]) :
        (k < Len(selected["D"]) \/ pc["D"] # "got") =>
            ~InFifo("U", selected["D"][k].pkt.id)

\* the chain with the same priorities in U and D, under env.run(): as long as
\* an event is scheduled the kernel processes the next one; the sources may
\* stop at any time
ChainLiveInit == ChainInit /\ prio["U"] = prio["D"]

ChainKernelStep ==
    \/ \E e \in {"U", "D"} : Resume(e) \/ Wake(e)
    \/ StoreGet("U") \/ ServeMirror("U") \/ TransmitMirror("U")
    \/ Serve("D") \/ Transmit("D")
    \/ NextTimeout

ChainFairness == WF_vars(ChainKernelStep)

ChainLiveSpec == ChainLiveInit /\ [][ChainNext]_vars /\ ChainFairness

\* C15: every packet admitted to U is eventually forwarded by U to D and by
\* D to its output.
ChainLiveness ==
    []<>(\A k \in 1..Len(admitted["U"]) : InSink("D", admitted["U"][k].pkt.id))

\* ------------------------------- a source that puts straight to element D
\* D alone, with or without zero_buffer; its puts carry no upstream_update
\* and no upstream_store
DirectInit ==
    /\ rate \in [Elems -> Rates]
    /\ \E c \in Admitting, zb \in SUBSET {"D"} :
          Construct({"D"}, [e \in Elems |-> c], zb, {}, [e \in Elems |-> "sink"])

DirectNext ==
    \/ \E f \in Flows, sz \in Sizes : Arrive("D", f, sz)
    \/ Resume("D")
    \/ Wake("D")
    \/ Serve("D")
    \/ Transmit("D")
    \/ Tick
    \/ NextTimeout

DirectSpec == DirectInit /\ [][DirectNext]_vars

\* C16: with zero_buffer=True, update(packet) performs the bridge step only
\* when put recorded a bridge entry for the packet; a packet put without
\* upstream_update/upstream_store is dequeued, accounted and forwarded
\* without error.
BridgeStepConditional ==
    /\ pc["D"] # "crashed"
    /\ \A k \in 1..Len(selected["D"]) :
          (k < Len(selected["D"]) \/ pc["D"] \in {"idle", "woken"}) =>
              InSink("D", selected["D"][k].pkt.id)

====
